---- MODULE Spec2Model ----
(***************************************************************************)
(* Model of discord_bot.py: a Discord client (one asyncio event loop) that *)
(* forwards "!Smith <query>" chat messages to an n8n webhook, and a Flask  *)
(* server (its own thread) whose POST /webhook endpoint schedules the      *)
(* delivery of the workflow's answer into a Discord channel.               *)
(*                                                                         *)
(* Text is modelled by TLA+ strings, which TLC slices (SubSeq), measures   *)
(* (Len) and concatenates (\o) as sequences of characters.                 *)
(***************************************************************************)
EXTENDS Integers, Sequences, FiniteSets, TLC

VARIABLES gateway, handlers, requests, deliveries, ready, loopCalls, asleep

vars == <<gateway, handlers, requests, deliveries, ready, loopCalls, asleep>>

(***************************************************************************)
(* Bounds of the model.                                                    *)
(***************************************************************************)
\* Events of one run: chat messages the gateway delivers and POST /webhook
\* requests the Flask server receives, together.
MaxEvents == 2

\* Channel identifiers of the round-trip runs: every one from 1 to this.
MaxChannelId == 120


(***************************************************************************)
(* Python text operations used by the program.                             *)
(***************************************************************************)
\* s[i] as a one-character string, 1-based.
CharAt(s, i) == SubSeq(s, i, i)

\* Characters str.strip() and int() treat as whitespace (those the inputs use).
Whitespace == {" ", "\t", "\n"}

\* str.startswith(p): an exact, case-sensitive comparison of the leading text.
StartsWith(s, p) == Len(s) >= Len(p) /\ SubSeq(s, 1, Len(p)) = p

\* s[n:] of Python, n counted from 0.
DropFirst(s, n) == SubSeq(s, n + 1, Len(s))

RECURSIVE LStrip(_)
LStrip(s) ==
    IF Len(s) > 0 /\ CharAt(s, 1) \in Whitespace
    THEN LStrip(SubSeq(s, 2, Len(s)))
    ELSE s

RECURSIVE RStrip(_)
RStrip(s) ==
    IF Len(s) > 0 /\ CharAt(s, Len(s)) \in Whitespace
    THEN RStrip(SubSeq(s, 1, Len(s) - 1))
    ELSE s

\* str.strip(): leading and trailing whitespace removed, the inside kept.
Strip(s) == RStrip(LStrip(s))

\* str.lower(), which the program does not call: the properties and a mutant
\* compare text case-insensitively with it.
UpperLetters == "ABCDEFGHIJKLMNOPQRSTUVWXYZ"
LowerLetters == "abcdefghijklmnopqrstuvwxyz"

\* str.lower() on one character.
LowerChar(c) ==
    IF \E k \in 1..26 : CharAt(UpperLetters, k) = c
    THEN CharAt(LowerLetters, CHOOSE k \in 1..26 : CharAt(UpperLetters, k) = c)
    ELSE c

\* str.lower().
RECURSIVE Lower(_)
Lower(s) ==
    IF Len(s) = 0 THEN ""
    ELSE LowerChar(CharAt(s, 1)) \o Lower(SubSeq(s, 2, Len(s)))

Digits == "0123456789"

IsDigit(c) == \E k \in 1..10 : CharAt(Digits, k) = c

DigitValue(c) == (CHOOSE k \in 1..10 : CharAt(Digits, k) = c) - 1

\* str(n) for a non-negative integer: its decimal digits, no leading zero.
RECURSIVE NatToStr(_)
NatToStr(n) ==
    IF n < 10 THEN CharAt(Digits, n + 1)
    ELSE NatToStr(n \div 10) \o CharAt(Digits, (n % 10) + 1)

\* Mutant: the identifier rendered as a float is.
IntToStrAsFloat(n) == NatToStr(n) \o ".0"

\* str(n) for an integer.
IntToStr(n) == IF n < 0 THEN "-" \o NatToStr(0 - n) ELSE NatToStr(n)

\* The digits of int(): one or more decimal digits, single underscores
\* allowed between digits only.
RECURSIVE IsDigitRun(_)
IsDigitRun(s) ==
    IF Len(s) = 0 THEN FALSE
    ELSE IF ~IsDigit(CharAt(s, 1)) THEN FALSE
    ELSE IF Len(s) = 1 THEN TRUE
    ELSE IF CharAt(s, 2) = "_" THEN IsDigitRun(SubSeq(s, 3, Len(s)))
    ELSE IsDigitRun(SubSeq(s, 2, Len(s)))

RECURSIVE DigitRunValue(_, _)
DigitRunValue(s, acc) ==
    IF Len(s) = 0 THEN acc
    ELSE IF CharAt(s, 1) = "_" THEN DigitRunValue(SubSeq(s, 2, Len(s)), acc)
    ELSE DigitRunValue(SubSeq(s, 2, Len(s)), acc * 10 + DigitValue(CharAt(s, 1)))

\* int(s) for a str: surrounding whitespace ignored, an optional sign, then
\* the digits; anything else raises ValueError (ok = FALSE).
IntOfStr(s) ==
    LET t    == Strip(s)
        sign == IF Len(t) > 0 /\ CharAt(t, 1) \in {"+", "-"} THEN CharAt(t, 1) ELSE ""
        body == IF sign = "" THEN t ELSE SubSeq(t, 2, Len(t))
    IN  IF IsDigitRun(body)
        THEN [ok |-> TRUE,
              val |-> IF sign = "-" THEN 0 - DigitRunValue(body, 0)
                      ELSE DigitRunValue(body, 0)]
        ELSE [ok |-> FALSE, val |-> 0]

\* int(x) for a decoded JSON value x (line 60): a str is parsed, an integer is
\* itself, a float is truncated toward zero, null raises TypeError.  A float
\* is held in tenths (n = 79 is 7.9).
PyInt(x) ==
    CASE x.t = "str"   -> [ok |-> IntOfStr(x.s).ok, val |-> IntOfStr(x.s).val,
                           err |-> "invalid literal for int() with base 10: '" \o x.s \o "'"]
      [] x.t = "int"   -> [ok |-> TRUE, val |-> x.n, err |-> ""]
      [] x.t = "float" -> [ok |-> TRUE,
                           val |-> IF x.n >= 0 THEN x.n \div 10 ELSE 0 - ((0 - x.n) \div 10),
                           err |-> ""]
      [] OTHER         -> [ok |-> FALSE, val |-> 0,
                           err |-> "int() argument must be a string, a bytes-like object or a real number, not 'NoneType'"]

(***************************************************************************)
(* The environment: users, channels, chat messages, callback bodies and    *)
(* the outcomes of the outbound HTTP call.                                 *)
(***************************************************************************)
\* client.user, the account the bot is logged in as.
BotUser == [id |-> 1, name |-> "Smith"]
Alice   == [id |-> 2, name |-> "alice"]
\* Another account that carries the bot's display name.
Carol   == [id |-> 3, name |-> "Smith"]

\* The channels the bot can resolve; any other identifier is unknown.
Channels == {7, 12}

\* A string of n characters: s repeated.
RECURSIVE Repeat(_, _)
Repeat(s, n) ==
    IF n = 0 THEN ""
    ELSE IF n % 2 = 1 THEN s \o Repeat(s, n - 1)
    ELSE LET h == Repeat(s, n \div 2) IN h \o h

\* A callback message of 4500 characters.
LongMessage == Repeat("abcdefghi", 500)

\* A callback message of exactly 2000 characters, the most one send carries.
FullMessage == Repeat("abcdefghij", 200)

ChatMessages ==
    { [author |-> BotUser, content |-> "!Smith Hi",                   channel |-> 7],
      [author |-> Alice,   content |-> "!smith Hi",                   channel |-> 12],
      [author |-> Alice,   content |-> "!Smith",                      channel |-> 7],
      [author |-> Alice,   content |-> "!Smith  Summarize This \n",   channel |-> 7],
      [author |-> Carol,   content |-> "!Smith Who is that guy? ",    channel |-> 12],
      [author |-> Alice,   content |-> "!Smith  ",                    channel |-> 12] }

\* Decoded JSON values; a key that is not in the object is "absent".
JAbsent   == [t |-> "absent", s |-> "", n |-> 0]
JNull     == [t |-> "null",   s |-> "", n |-> 0]
JStr(s)   == [t |-> "str",    s |-> s,  n |-> 0]
JInt(n)   == [t |-> "int",    s |-> "", n |-> n]
JFloat(n) == [t |-> "float",  s |-> "", n |-> n]

\* request.json of a POST /webhook: an object with the two keys, or null.
CallbackBodies ==
    { [object |-> TRUE,  channel_id |-> JStr("7"),    message |-> JStr("ok")],
      [object |-> TRUE,  channel_id |-> JInt(12),     message |-> JStr(LongMessage)],
      [object |-> TRUE,  channel_id |-> JStr(" 99 "), message |-> JStr("ok")],
      [object |-> TRUE,  channel_id |-> JFloat(79),   message |-> JStr(FullMessage)],
      [object |-> TRUE,  channel_id |-> JStr("7x"),   message |-> JStr("ok")],
      [object |-> TRUE,  channel_id |-> JNull,        message |-> JStr("ok")],
      [object |-> TRUE,  channel_id |-> JAbsent,      message |-> JStr("ok")],
      [object |-> TRUE,  channel_id |-> JStr("12"),   message |-> JAbsent],
      [object |-> FALSE, channel_id |-> JAbsent,      message |-> JAbsent] }

\* How requests.post ends: an exception of requests.exceptions (exc), or a
\* response with a status code.
PostOutcomes ==
    { [exc |-> "", status |-> 200],
      [exc |-> "", status |-> 304],
      [exc |-> "", status |-> 404],
      [exc |-> "Timeout", status |-> 0] }

\* Discord's limit on the length of one message's content.
MessageLimit == 2000

\* How channel.send can end: it may always fail (ok = FALSE), and Discord
\* rejects content over the limit.
SendOutcomes(text) == IF Len(text) <= MessageLimit THEN BOOLEAN ELSE {FALSE}

\* How client.fetch_channel ends.
FetchOutcomes == {"channel", "raise", "none"}

(***************************************************************************)
(* on_message (lines 94-130).                                              *)
(***************************************************************************)
Prefix == "!Smith "

\* message.author == client.user: discord.py compares users by id.
IsOwnMessage(m) == m.author.id = BotUser.id

\* Mutant: the prefix compared without regard to case.
HasPrefixAnyCase(content) == StartsWith(Lower(content), Lower(Prefix))

\* message.content.startswith('!Smith ')
HasPrefix(content) == StartsWith(content, Prefix)

\* message.content[len('!Smith '):].strip()
ExtractQuery(content) == Strip(DropFirst(content, Len(Prefix)))

\* The acknowledgment of line 114: an f-string that quotes the query.  The
\* backquotes around the query are written ' here: a TLA+ string cannot hold
\* a backquote.
AckText(query) == "Got it. Analyzing your request: '" \o query \o "'. Please wait..."

ApologyText ==
    "Sorry, there was an error communicating with my analysis service. Please try again later."

\* The JSON payload of the forwarded job.
Payload(m, query) ==
    [query |-> query, channel_id |-> IntToStr(m.channel), user |-> m.author.name]

\* Mutant: only server errors raise.
RaiseForStatusServerOnly(status) == status >= 500 /\ status < 600

\* response.raise_for_status(): raises HTTPError for 4xx and 5xx.
RaiseForStatus(status) == status >= 400 /\ status < 600

\* The try block of lines 124-128 ends in the except branch.
PostFails(outcome) == outcome.exc # "" \/ RaiseForStatus(outcome.status)

(***************************************************************************)
(* The state.                                                              *)
(*   gateway    chat messages received on the websocket, not yet handled   *)
(*   handlers   the on_message coroutines, in the order they started; each *)
(*              holds its message, its query, its position (pc), the       *)
(*              channel.send and requests.post calls it issued, in order,  *)
(*              and the order of the two kinds of call (trace)             *)
(*   requests   the POST /webhook requests handled, with their responses   *)
(*   deliveries the send_message_to_channel tasks, in the order created,   *)
(*              each with the channel.send calls it issued                 *)
(*   ready      the loop's queue of tasks created and not yet started      *)
(*   loopCalls  which context called which operation of the client's loop  *)
(*   asleep     the loop is waiting in its selector for I/O or a wake-up   *)
(***************************************************************************)
Init ==
    /\ gateway = <<>>
    /\ handlers = <<>>
    /\ requests = <<>>
    /\ deliveries = <<>>
    /\ ready = <<>>
    /\ loopCalls = {}
    /\ asleep = TRUE

\* requests.post is a blocking call made on the loop's thread (line 125):
\* while it runs, the loop runs nothing else.
LoopBlocked == \E i \in DOMAIN handlers : handlers[i].pc = "posting"

\* The loop is between two callbacks and may start the next one.
LoopCanRun == ~LoopBlocked /\ ~asleep

\* The events received so far.
Events == Len(gateway) + Len(handlers) + Len(requests)

\* The loop has nothing to run: no message to dispatch, no task to start.
LoopIdle == ~LoopBlocked /\ gateway = <<>> /\ ready = <<>>

\* After a callback the loop runs whatever is ready, and with nothing ready
\* it waits in its selector until I/O or a thread-safe call wakes it.
LoopSettles == asleep' = LoopIdle'

\* Mutant: every send goes to one configured channel.
NewSendFixedChannel(site, chan, text) ==
    [site |-> site, chan |-> 7, text |-> text, st |-> "inflight"]

\* Mutant: the content cut to fewer characters than the limit allows.
NewSendTruncated(site, chan, text) ==
    [site |-> site, chan |-> chan,
     text |-> SubSeq(text, 1, IF Len(text) < MessageLimit THEN Len(text) ELSE MessageLimit - 1),
     st |-> "inflight"]

\* A channel.send issued from the loop, its outcome not yet known.
NewSend(site, chan, text) ==
    [site |-> site, chan |-> chan, text |-> text, st |-> "inflight"]

\* The outcome of the last send of a task recorded.
SendDone(log, ok) ==
    [log EXCEPT ![Len(log)].st = IF ok THEN "sent" ELSE "failed"]

\* A requests.post issued, blocking until PostEnded.
NewPost(payload) ==
    [payload |-> payload, st |-> "outstanding", exc |-> "", status |-> 0]

PostEnded(log, outcome) ==
    [log EXCEPT ![Len(log)] =
        [@ EXCEPT !.st = "ended", !.exc = outcome.exc, !.status = outcome.status]]

CalledFromLoop(api) == loopCalls \cup {[ctx |-> "loop", api |-> api]}

\* A chat message arrives on the gateway websocket; readable I/O wakes the loop.
GatewayReceive(m) ==
    /\ Events < MaxEvents
    /\ gateway' = Append(gateway, m)
    /\ asleep' = FALSE
    /\ UNCHANGED <<handlers, requests, deliveries, ready, loopCalls>>

\* The handler of a message that on_message returns from at once.
IgnoredHandler(m) ==
    [msg |-> m, query |-> "", pc |-> "done", sends |-> <<>>, posts |-> <<>>,
     trace |-> <<>>]

\* Mutant: the acknowledgment is handed to the loop as a task and not
\* awaited, so that requests.post is called before the send has ended.
CommandHandlerAckNotAwaited(m) ==
    [msg |-> m, query |-> ExtractQuery(m.content), pc |-> "posting",
     sends |-> <<NewSend("ack", m.channel, AckText(ExtractQuery(m.content)))>>,
     posts |-> <<NewPost(Payload(m, ExtractQuery(m.content)))>>,
     trace |-> <<"ack", "post">>]

\* The handler of a command, at its first await: the acknowledgment issued.
CommandHandler(m) ==
    [msg |-> m, query |-> ExtractQuery(m.content), pc |-> "ack",
     sends |-> <<NewSend("ack", m.channel, AckText(ExtractQuery(m.content)))>>,
     posts |-> <<>>, trace |-> <<"ack">>]

\* on_message up to its first await (lines 100-114): the two early returns,
\* or the query extracted and the acknowledgment issued.
OnMessage ==
    /\ LoopCanRun
    /\ gateway # <<>>
    /\ gateway' = Tail(gateway)
    /\ IF IsOwnMessage(Head(gateway)) \/ ~HasPrefix(Head(gateway).content)
       THEN /\ handlers' = Append(handlers, IgnoredHandler(Head(gateway)))
            /\ UNCHANGED loopCalls
       ELSE /\ handlers' = Append(handlers, CommandHandler(Head(gateway)))
            /\ loopCalls' = CalledFromLoop("send")
    /\ UNCHANGED <<requests, deliveries, ready>>
    /\ LoopSettles

\* The acknowledgment's send ends (line 114).  A failure raises out of
\* on_message; otherwise the payload is built and requests.post is called
\* (lines 117-125), which blocks the loop's thread.
AckCompletes(i, ok) ==
    /\ ~LoopBlocked
    /\ handlers[i].pc = "ack"
    /\ ok \in SendOutcomes(handlers[i].sends[Len(handlers[i].sends)].text)
    /\ IF ok
       THEN handlers' = [handlers EXCEPT ![i] =
                [@ EXCEPT !.pc = "posting",
                          !.sends = SendDone(@, TRUE),
                          !.posts = Append(@, NewPost(Payload(handlers[i].msg, handlers[i].query))),
                          !.trace = Append(@, "post")]]
       ELSE handlers' = [handlers EXCEPT ![i] =
                [@ EXCEPT !.pc = "raised", !.sends = SendDone(@, FALSE)]]
    /\ UNCHANGED <<gateway, requests, deliveries, ready, loopCalls>>
    /\ LoopSettles

\* Mutant: the except branch sends the apology and then a second notice.
PostCompletesTwoNotices(i, outcome) ==
    /\ handlers[i].pc = "posting"
    /\ IF PostFails(outcome)
       THEN /\ handlers' = [handlers EXCEPT ![i] =
                   [@ EXCEPT !.pc = "apology",
                             !.posts = PostEnded(@, outcome),
                             !.sends = @ \o <<[NewSend("apology", handlers[i].msg.channel, ApologyText)
                                                  EXCEPT !.st = "sent"],
                                              NewSend("apology", handlers[i].msg.channel, ApologyText)>>,
                             !.trace = Append(@, "apology")]]
            /\ loopCalls' = CalledFromLoop("send")
       ELSE /\ handlers' = [handlers EXCEPT ![i] =
                   [@ EXCEPT !.pc = "done", !.posts = PostEnded(@, outcome)]]
            /\ UNCHANGED loopCalls
    /\ UNCHANGED <<gateway, requests, deliveries, ready>>
    /\ LoopSettles

\* Mutant: the except clause names HTTPError only, so that an exception of
\* the transport leaves on_message.
PostCompletesNarrowExcept(i, outcome) ==
    /\ handlers[i].pc = "posting"
    /\ IF outcome.exc # ""
       THEN /\ handlers' = [handlers EXCEPT ![i] =
                   [@ EXCEPT !.pc = "raised", !.posts = PostEnded(@, outcome)]]
            /\ UNCHANGED loopCalls
       ELSE IF RaiseForStatus(outcome.status)
       THEN /\ handlers' = [handlers EXCEPT ![i] =
                   [@ EXCEPT !.pc = "apology",
                             !.posts = PostEnded(@, outcome),
                             !.sends = Append(@, NewSend("apology", handlers[i].msg.channel, ApologyText)),
                             !.trace = Append(@, "apology")]]
            /\ loopCalls' = CalledFromLoop("send")
       ELSE /\ handlers' = [handlers EXCEPT ![i] =
                   [@ EXCEPT !.pc = "done", !.posts = PostEnded(@, outcome)]]
            /\ UNCHANGED loopCalls
    /\ UNCHANGED <<gateway, requests, deliveries, ready>>
    /\ LoopSettles

\* requests.post returns or raises (lines 125-130): on success the handler
\* ends, on a RequestException the apology is issued.
PostCompletes(i, outcome) ==
    /\ handlers[i].pc = "posting"
    /\ IF PostFails(outcome)
       THEN /\ handlers' = [handlers EXCEPT ![i] =
                   [@ EXCEPT !.pc = "apology",
                             !.posts = PostEnded(@, outcome),
                             !.sends = Append(@, NewSend("apology", handlers[i].msg.channel, ApologyText)),
                             !.trace = Append(@, "apology")]]
            /\ loopCalls' = CalledFromLoop("send")
       ELSE /\ handlers' = [handlers EXCEPT ![i] =
                   [@ EXCEPT !.pc = "done", !.posts = PostEnded(@, outcome)]]
            /\ UNCHANGED loopCalls
    /\ UNCHANGED <<gateway, requests, deliveries, ready>>
    /\ LoopSettles

\* The apology's send ends (line 130); a failure raises out of on_message.
ApologyCompletes(i, ok) ==
    /\ ~LoopBlocked
    /\ handlers[i].pc = "apology"
    /\ ok \in SendOutcomes(handlers[i].sends[Len(handlers[i].sends)].text)
    /\ handlers' = [handlers EXCEPT ![i] =
           [@ EXCEPT !.pc = IF ok THEN "done" ELSE "raised", !.sends = SendDone(@, ok)]]
    /\ UNCHANGED <<gateway, requests, deliveries, ready, loopCalls>>
    /\ LoopSettles

(***************************************************************************)
(* receive_n8n_response (lines 48-70), run by a Flask thread.              *)
(***************************************************************************)
\* Mutant: a missing message read as the empty text (data.get).
ParseCallbackDefaultMessage(body) ==
    IF ~body.object
    THEN [ok |-> FALSE, channel_id |-> 0, message |-> "",
          details |-> "'NoneType' object is not subscriptable"]
    ELSE IF body.channel_id.t = "absent"
    THEN [ok |-> FALSE, channel_id |-> 0, message |-> "", details |-> "'channel_id'"]
    ELSE IF ~PyInt(body.channel_id).ok
    THEN [ok |-> FALSE, channel_id |-> 0, message |-> "",
          details |-> PyInt(body.channel_id).err]
    ELSE [ok |-> TRUE, channel_id |-> PyInt(body.channel_id).val,
          message |-> body.message.s, details |-> ""]

\* Lines 59-61: the body decoded, channel_id converted, message read.  The
\* first failure is the exception the handler catches; details is str(e).
ParseCallback(body) ==
    LET none == [ok |-> FALSE, channel_id |-> 0, message |-> "", details |-> ""]
    IN  IF ~body.object
        THEN [none EXCEPT !.details = "'NoneType' object is not subscriptable"]
        ELSE IF body.channel_id.t = "absent"
        THEN [none EXCEPT !.details = "'channel_id'"]
        ELSE IF ~PyInt(body.channel_id).ok
        THEN [none EXCEPT !.details = PyInt(body.channel_id).err]
        ELSE IF body.message.t = "absent"
        THEN [none EXCEPT !.details = "'message'"]
        ELSE [ok |-> TRUE, channel_id |-> PyInt(body.channel_id).val,
              message |-> body.message.s, details |-> ""]

\* The response of line 67.
SuccessResponse == [code |-> 200, status |-> "success", details |-> ""]

\* The response of line 70.
ErrorResponse(details) == [code |-> 500, status |-> "error", details |-> details]

\* Mutant: the handler resolves the channel itself before it answers, and
\* answers with an error when the channel is unknown.
WebhookSync(body) ==
    /\ Events < MaxEvents
    /\ IF ParseCallback(body).ok /\ ParseCallback(body).channel_id \in Channels
       THEN /\ deliveries' = Append(deliveries,
                   [req |-> Len(requests) + 1,
                    channel_id |-> ParseCallback(body).channel_id,
                    message |-> ParseCallback(body).message,
                    pc |-> "created", fetched |-> "", sends |-> <<>>])
            /\ ready' = Append(ready, Len(deliveries) + 1)
            /\ loopCalls' = loopCalls \cup {[ctx |-> "http", api |-> "create_task"]}
            /\ requests' = Append(requests, [body |-> body, response |-> SuccessResponse])
       ELSE /\ requests' = Append(requests,
                   [body |-> body, response |-> ErrorResponse("Unknown Channel")])
            /\ UNCHANGED <<deliveries, ready, loopCalls>>
    /\ UNCHANGED <<gateway, handlers, asleep>>

\* Mutant: a callback is accepted only for a channel from which a job was
\* forwarded and not yet answered.
WebhookCorrelated(body) ==
    /\ Events < MaxEvents
    /\ IF /\ ParseCallback(body).ok
          /\ Cardinality({i \in DOMAIN handlers :
                              /\ handlers[i].posts # <<>>
                              /\ handlers[i].msg.channel = ParseCallback(body).channel_id})
                 > Cardinality({j \in DOMAIN deliveries :
                                   deliveries[j].channel_id = ParseCallback(body).channel_id})
       THEN /\ deliveries' = Append(deliveries,
                   [req |-> Len(requests) + 1,
                    channel_id |-> ParseCallback(body).channel_id,
                    message |-> ParseCallback(body).message,
                    pc |-> "created", fetched |-> "", sends |-> <<>>])
            /\ ready' = Append(ready, Len(deliveries) + 1)
            /\ loopCalls' = loopCalls \cup {[ctx |-> "http", api |-> "create_task"]}
            /\ requests' = Append(requests, [body |-> body, response |-> SuccessResponse])
       ELSE /\ requests' = Append(requests,
                   [body |-> body, response |-> ErrorResponse("no pending job")])
            /\ UNCHANGED <<deliveries, ready, loopCalls>>
    /\ UNCHANGED <<gateway, handlers, asleep>>

\* Mutant: the coroutine is created and never handed to the loop.
WebhookNotScheduled(body) ==
    /\ Events < MaxEvents
    /\ IF ParseCallback(body).ok
       THEN /\ deliveries' = Append(deliveries,
                   [req |-> Len(requests) + 1,
                    channel_id |-> ParseCallback(body).channel_id,
                    message |-> ParseCallback(body).message,
                    pc |-> "created", fetched |-> "", sends |-> <<>>])
            /\ requests' = Append(requests, [body |-> body, response |-> SuccessResponse])
            /\ UNCHANGED <<ready, loopCalls>>
       ELSE /\ requests' = Append(requests,
                   [body |-> body, response |-> ErrorResponse(ParseCallback(body).details)])
            /\ UNCHANGED <<deliveries, ready, loopCalls>>
    /\ UNCHANGED <<gateway, handlers, asleep>>

\* One POST /webhook, handled on the Flask thread.  A body that parses has
\* its delivery created with client.loop.create_task, called from this
\* thread (line 65): the task is put on the loop's ready queue and the loop,
\* if it is waiting in its selector, is not woken.  The coroutine's body does
\* not run here.
Webhook(body) ==
    /\ Events < MaxEvents
    /\ IF ParseCallback(body).ok
       THEN /\ deliveries' = Append(deliveries,
                   [req |-> Len(requests) + 1,
                    channel_id |-> ParseCallback(body).channel_id,
                    message |-> ParseCallback(body).message,
                    pc |-> "created", fetched |-> "", sends |-> <<>>])
            /\ ready' = Append(ready, Len(deliveries) + 1)
            /\ loopCalls' = loopCalls \cup {[ctx |-> "http", api |-> "create_task"]}
            /\ requests' = Append(requests, [body |-> body, response |-> SuccessResponse])
       ELSE /\ requests' = Append(requests,
                   [body |-> body, response |-> ErrorResponse(ParseCallback(body).details)])
            /\ UNCHANGED <<deliveries, ready, loopCalls>>
    /\ UNCHANGED <<gateway, handlers, asleep>>

(***************************************************************************)
(* send_message_to_channel (lines 72-83), a task of the client's loop.     *)
(***************************************************************************)
\* The loop starts the next ready task: the coroutine runs to its first
\* await, client.fetch_channel (line 77).
DeliverStart ==
    /\ LoopCanRun
    /\ ready # <<>>
    /\ deliveries' = [deliveries EXCEPT ![Head(ready)].pc = "fetching"]
    /\ ready' = Tail(ready)
    /\ loopCalls' = CalledFromLoop("fetch_channel")
    /\ UNCHANGED <<gateway, handlers, requests>>
    /\ LoopSettles

\* Mutant: fetch_channel awaited outside the try block, so that its
\* exception leaves the task.
FetchCompletesNoTry(j, outcome) ==
    /\ ~LoopBlocked
    /\ deliveries[j].pc = "fetching"
    /\ outcome = "channel" => deliveries[j].channel_id \in Channels
    /\ \/ /\ outcome = "channel"
          /\ deliveries' = [deliveries EXCEPT ![j] =
                 [@ EXCEPT !.pc = "sending", !.fetched = outcome,
                           !.sends = Append(@, NewSend("deliver", deliveries[j].channel_id,
                                                       deliveries[j].message))]]
          /\ loopCalls' = CalledFromLoop("send")
       \/ /\ outcome = "none"
          /\ deliveries' = [deliveries EXCEPT ![j] =
                 [@ EXCEPT !.pc = "notfound", !.fetched = outcome]]
          /\ UNCHANGED loopCalls
       \/ /\ outcome = "raise"
          /\ deliveries' = [deliveries EXCEPT ![j] =
                 [@ EXCEPT !.pc = "escaped", !.fetched = outcome]]
          /\ UNCHANGED loopCalls
    /\ UNCHANGED <<gateway, handlers, requests, ready>>
    /\ LoopSettles

\* fetch_channel ends (lines 77-83): with a channel, the whole message is
\* sent in one channel.send; with nothing, or with an exception, the error
\* is printed and the task ends.  An unknown channel cannot be fetched.
\* fetched records how the call ended.
FetchCompletes(j, outcome) ==
    /\ ~LoopBlocked
    /\ deliveries[j].pc = "fetching"
    /\ outcome = "channel" => deliveries[j].channel_id \in Channels
    /\ \/ /\ outcome = "channel"
          /\ deliveries' = [deliveries EXCEPT ![j] =
                 [@ EXCEPT !.pc = "sending", !.fetched = outcome,
                           !.sends = Append(@, NewSend("deliver", deliveries[j].channel_id,
                                                       deliveries[j].message))]]
          /\ loopCalls' = CalledFromLoop("send")
       \/ /\ outcome = "none"
          /\ deliveries' = [deliveries EXCEPT ![j] =
                 [@ EXCEPT !.pc = "notfound", !.fetched = outcome]]
          /\ UNCHANGED loopCalls
       \/ /\ outcome = "raise"
          /\ deliveries' = [deliveries EXCEPT ![j] =
                 [@ EXCEPT !.pc = "caught", !.fetched = outcome]]
          /\ UNCHANGED loopCalls
    /\ UNCHANGED <<gateway, handlers, requests, ready>>
    /\ LoopSettles

\* channel.send ends (lines 79, 82-83): an exception is caught and printed.
DeliverSendCompletes(j, ok) ==
    /\ ~LoopBlocked
    /\ deliveries[j].pc = "sending"
    /\ ok \in SendOutcomes(deliveries[j].sends[Len(deliveries[j].sends)].text)
    /\ deliveries' = [deliveries EXCEPT ![j] =
           [@ EXCEPT !.pc = IF ok THEN "done" ELSE "caught", !.sends = SendDone(@, ok)]]
    /\ UNCHANGED <<gateway, handlers, requests, ready, loopCalls>>
    /\ LoopSettles

(***************************************************************************)
(* The event loop of client.run (line 148).                                *)
(***************************************************************************)
\* The gateway's keep-alive thread submits the heartbeat with a thread-safe
\* call, which wakes the selector: the loop then finds the tasks that
\* create_task put on its queue from the Flask thread while it waited.
Heartbeat ==
    /\ asleep
    /\ ready # <<>>
    /\ asleep' = FALSE
    /\ UNCHANGED <<gateway, handlers, requests, deliveries, ready, loopCalls>>

Next ==
    \/ \E m \in ChatMessages : GatewayReceive(m)
    \/ OnMessage
    \/ \E i \in DOMAIN handlers : \E ok \in BOOLEAN : AckCompletes(i, ok)
    \/ \E i \in DOMAIN handlers : \E o \in PostOutcomes : PostCompletes(i, o)
    \/ \E i \in DOMAIN handlers : \E ok \in BOOLEAN : ApologyCompletes(i, ok)
    \/ \E b \in CallbackBodies : Webhook(b)
    \/ DeliverStart
    \/ \E j \in DOMAIN deliveries : \E o \in FetchOutcomes : FetchCompletes(j, o)
    \/ \E j \in DOMAIN deliveries : \E ok \in BOOLEAN : DeliverSendCompletes(j, ok)
    \/ Heartbeat

Spec == Init /\ [][Next]_vars

\* The steps of the program itself: what the loop runs, the completions of
\* the calls it awaits, the end of the blocking requests.post and the
\* keep-alive's wake-up; all of Next but the arrival of an input.
LoopProgress ==
    \/ OnMessage
    \/ \E i \in DOMAIN handlers : \E ok \in BOOLEAN : AckCompletes(i, ok)
    \/ \E i \in DOMAIN handlers : \E o \in PostOutcomes : PostCompletes(i, o)
    \/ \E i \in DOMAIN handlers : \E ok \in BOOLEAN : ApologyCompletes(i, ok)
    \/ DeliverStart
    \/ \E j \in DOMAIN deliveries : \E o \in FetchOutcomes : FetchCompletes(j, o)
    \/ \E j \in DOMAIN deliveries : \E ok \in BOOLEAN : DeliverSendCompletes(j, ok)
    \/ Heartbeat

\* The inputs of the fair runs, one of each kind the scheduling can tell
\* apart: a message on_message ignores and a command; a callback that is
\* delivered, one for an unknown channel and one that is refused.
FairMessages == {m \in ChatMessages : m.content \in {"!Smith Hi", "!Smith  Summarize This \n"}}
FairBodies == {b \in CallbackBodies : b.message = JStr("ok") /\ b.channel_id.t = "str"}

FairNext ==
    \/ \E m \in FairMessages : GatewayReceive(m)
    \/ \E b \in FairBodies : Webhook(b)
    \/ LoopProgress

\* The program with its scheduling: client.run keeps the loop running, an
\* asyncio loop runs its ready callbacks in the order queued, discord.py's
\* requests and requests.post (timeout=10, line 125) end, and the keep-alive
\* thread submits a heartbeat at every interval.  So a step of the program
\* that stays possible is taken.
FairSpec == Init /\ [][FairNext]_vars /\ WF_vars(LoopProgress)

(***************************************************************************)
(* The round trip of a channel identifier: a command in any channel is     *)
(* forwarded, and the workflow calls back with the channel_id text of the  *)
(* payload it received.                                                    *)
(***************************************************************************)
\* message.channel.id of the commands: small identifiers, identifiers around
\* a change in the number of digits, and large ones.  Python's integers have
\* no width; the identifiers here stay within the integers of TLC.
ChannelIds == (1..MaxChannelId) \cup {999, 1000, 1001, 65536, 1000000007, 2147483647}

\* One command received, in any of the channels.
RoundTripInit ==
    /\ \E n \in ChannelIds :
           gateway = <<[author |-> Alice, content |-> "!Smith Hi", channel |-> n]>>
    /\ handlers = <<>>
    /\ requests = <<>>
    /\ deliveries = <<>>
    /\ ready = <<>>
    /\ loopCalls = {}
    /\ asleep = FALSE

\* A POST /webhook whose channel_id is the text a forwarded payload carried.
EchoCallback ==
    \E i \in DOMAIN handlers : \E k \in DOMAIN handlers[i].posts :
        Webhook([object |-> TRUE,
                 channel_id |-> JStr(handlers[i].posts[k].payload.channel_id),
                 message |-> JStr("ok")])

RoundTripNext ==
    \/ OnMessage
    \/ \E i \in DOMAIN handlers : \E ok \in BOOLEAN : AckCompletes(i, ok)
    \/ \E i \in DOMAIN handlers : \E o \in PostOutcomes : PostCompletes(i, o)
    \/ \E i \in DOMAIN handlers : \E ok \in BOOLEAN : ApologyCompletes(i, ok)
    \/ EchoCallback
    \/ DeliverStart
    \/ \E j \in DOMAIN deliveries : \E o \in FetchOutcomes : FetchCompletes(j, o)
    \/ \E j \in DOMAIN deliveries : \E ok \in BOOLEAN : DeliverSendCompletes(j, ok)
    \/ Heartbeat

RoundTripSpec == RoundTripInit /\ [][RoundTripNext]_vars

(***************************************************************************)
(* Vocabulary of the properties.                                           *)
(***************************************************************************)
\* on_message has returned, or an exception has left it.
Finished(h) == h.pc \in {"done", "raised"}

\* The channel.send calls a task issued at one place of the code.
SendsAt(log, site) == {k \in DOMAIN log : log[k].site = site}

\* The message is a command: not the bot's own, and it starts with the prefix.
IsCommand(m) == m.author # BotUser /\ StartsWith(m.content, "!Smith ")

\* The text that follows the prefix, trimmed.
TrimmedRemainder(m) == Strip(DropFirst(m.content, 7))

\* The trimmed query is the static phrase, compared case-insensitively.
IsStaticPhrase(m) == Lower(TrimmedRemainder(m)) = "who is that guy?"

\* Channel identifiers as decimal text.
ChannelText == (7 :> "7") @@ (12 :> "12")

\* C1: a message written by the bot itself, or whose content does not start
\* with the exact prefix "!Smith ", makes on_message return at once: it issues
\* no channel.send and no requests.post.
C1_IgnoredMessagesDoNothing ==
    \A i \in DOMAIN handlers :
        (handlers[i].msg.author = BotUser \/ ~StartsWith(handlers[i].msg.content, "!Smith "))
            => /\ handlers[i].sends = <<>>
               /\ handlers[i].posts = <<>>
               /\ handlers[i].pc = "done"

\* One run in which the bot's own prefixed message and a user's message with
\* the prefix in another case have both been handled.
C1_Witness ==
    \E i, k \in DOMAIN handlers :
        /\ handlers[i].msg.author = BotUser
        /\ StartsWith(handlers[i].msg.content, "!Smith ")
        /\ handlers[k].msg.content = "!smith Hi"
        /\ handlers[k].msg.author # BotUser

\* C2: a command whose trimmed query is "who is that guy?", compared
\* case-insensitively, is answered by one send and never forwarded: the
\* handler makes no requests.post and, once it has finished, has issued
\* exactly one channel.send.
C2_StaticPhraseNotForwarded ==
    \A i \in DOMAIN handlers :
        (IsCommand(handlers[i].msg) /\ IsStaticPhrase(handlers[i].msg))
            => /\ handlers[i].posts = <<>>
               /\ Finished(handlers[i]) => Len(handlers[i].sends) = 1

\* What on_message does with the static phrase: it handles it as any other
\* query.  The handler issues the acknowledgment quoting the query in its original case
\* to the originating channel, and makes one requests.post, with that query,
\* exactly when the acknowledgment was sent.
StaticPhraseForwarded ==
    \A i \in DOMAIN handlers :
        (IsCommand(handlers[i].msg) /\ IsStaticPhrase(handlers[i].msg))
            => /\ Len(handlers[i].sends) >= 1
               /\ handlers[i].sends[1].site = "ack"
               /\ handlers[i].sends[1].chan = handlers[i].msg.channel
               /\ handlers[i].sends[1].text =
                      "Got it. Analyzing your request: 'Who is that guy?'. Please wait..."
               /\ Len(handlers[i].posts) = IF handlers[i].sends[1].st = "sent" THEN 1 ELSE 0
               /\ \A k \in DOMAIN handlers[i].posts :
                      handlers[i].posts[k].payload.query = "Who is that guy?"

\* The static phrase has been forwarded and the handler has returned.
StaticPhraseForwardedReached ==
    \E i \in DOMAIN handlers :
        /\ IsCommand(handlers[i].msg) /\ IsStaticPhrase(handlers[i].msg)
        /\ handlers[i].pc = "done"
        /\ Len(handlers[i].posts) = 1

\* The payload the forward of message m must carry.
ExpectedPayload(m) ==
    [query |-> TrimmedRemainder(m), channel_id |-> ChannelText[m.channel],
     user |-> m.author.name]

\* The message is a command with a non-empty query that is not the static phrase.
IsJob(m) == IsCommand(m) /\ TrimmedRemainder(m) # "" /\ ~IsStaticPhrase(m)

\* C3: a finished handler of a command with a non-empty query that is not the
\* static phrase has issued exactly one acknowledgment and exactly one
\* requests.post, whose payload holds the trimmed original-case query, the
\* channel identifier as text and the author's name.
C3_OneAckOnePost ==
    \A i \in DOMAIN handlers :
        (IsJob(handlers[i].msg) /\ Finished(handlers[i]))
            => /\ Cardinality(SendsAt(handlers[i].sends, "ack")) = 1
               /\ Len(handlers[i].posts) = 1
               /\ handlers[i].posts[1].payload = ExpectedPayload(handlers[i].msg)

\* What on_message does for a job command: it issues exactly one
\* acknowledgment, to the originating channel, and makes exactly one
\* requests.post when that send succeeded and none when it failed; the
\* payload holds the trimmed original-case query, the channel identifier as
\* text and the author's name.
OneAckThenOnePostIfAckSent ==
    \A i \in DOMAIN handlers :
        IsJob(handlers[i].msg)
            => /\ Cardinality(SendsAt(handlers[i].sends, "ack")) = 1
               /\ handlers[i].sends[1].site = "ack"
               /\ handlers[i].sends[1].chan = handlers[i].msg.channel
               /\ Len(handlers[i].posts) = IF handlers[i].sends[1].st = "sent" THEN 1 ELSE 0
               /\ \A k \in DOMAIN handlers[i].posts :
                      handlers[i].posts[k].payload = ExpectedPayload(handlers[i].msg)
               /\ handlers[i].msg.content = "!Smith  Summarize This \n"
                      => \A k \in DOMAIN handlers[i].posts :
                             handlers[i].posts[k].payload =
                                 [query |-> "Summarize This", channel_id |-> "7", user |-> "alice"]

\* A job command acknowledged and forwarded once.
JobForwardedReached ==
    \E i \in DOMAIN handlers :
        /\ IsJob(handlers[i].msg)
        /\ handlers[i].pc = "done"
        /\ handlers[i].sends[1].st = "sent"
        /\ Len(handlers[i].posts) = 1
        /\ handlers[i].posts[1].payload.query = "Summarize This"

\* ceil(l / c)
CeilDiv(l, c) == (l + c - 1) \div c

\* The texts of a task's sends, concatenated in the order sent.
RECURSIVE Concatenated(_)
Concatenated(log) ==
    IF log = <<>> THEN "" ELSE log[1].text \o Concatenated(Tail(log))

\* C4: a delivery whose channel resolved and whose sending is over
\* has issued ceil(L / 2000) sends, each of at most 2000 characters, which
\* concatenated give the message.
C4_Chunked ==
    \A j \in DOMAIN deliveries :
        (deliveries[j].sends # <<>> /\ deliveries[j].pc \in {"done", "caught"})
            => /\ Len(deliveries[j].sends) = CeilDiv(Len(deliveries[j].message), MessageLimit)
               /\ \A k \in DOMAIN deliveries[j].sends :
                      Len(deliveries[j].sends[k].text) <= MessageLimit
               /\ Concatenated(deliveries[j].sends) = deliveries[j].message

\* The request body lacks channel_id or message, or its channel_id cannot be
\* converted to an integer.
Malformed(body) ==
    \/ body.channel_id.t = "absent"
    \/ body.message.t = "absent"
    \/ ~PyInt(body.channel_id).ok

\* C5: a POST /webhook with a malformed body is answered 500 with status
\* "error" and a details text, and no delivery task exists for the request,
\* so no send is ever made for it.
C5_MalformedCallbackRejected ==
    \A r \in DOMAIN requests :
        Malformed(requests[r].body)
            => /\ requests[r].response.code = 500
               /\ requests[r].response.status = "error"
               /\ requests[r].response.details # ""
               /\ \A j \in DOMAIN deliveries : deliveries[j].req # r

\* A request with a non-numeric channel_id and one without message, both answered.
C5_Witness ==
    \E r, q \in DOMAIN requests :
        /\ requests[r].body.channel_id = JStr("7x")
        /\ requests[q].body.message = JAbsent
        /\ requests[q].body.channel_id = JStr("12")
        /\ requests[q].response.details = "'message'"

\* The submissions to a loop that another thread may make.
ThreadSafeSubmissions == {"call_soon_threadsafe", "run_coroutine_threadsafe"}

\* C6: every operation on the client's loop is called from the
\* loop's own context, except thread-safe submissions.
C6_LoopStateOnlyFromLoop ==
    \A c \in loopCalls : c.ctx = "loop" \/ c.api \in ThreadSafeSubmissions

\* C7: while a requests.post of on_message is outstanding, the loop
\* can handle a chat message that is waiting and start a delivery that is ready.
C7_LoopRunsDuringPost ==
    (\E i \in DOMAIN handlers : handlers[i].pc = "posting")
        => /\ gateway # <<>> => ENABLED OnMessage
           /\ ready # <<>> => ENABLED DeliverStart

\* The body has both keys and a channel_id that converts to an integer.
WellFormed(body) == body.object /\ ~Malformed(body)

\* C8: a well-formed callback is answered 200 {"status": "success"} in the
\* step that schedules its one delivery task, and the response recorded is
\* that one whatever the delivery's position or outcome.
C8_SuccessOnceScheduled ==
    \A r \in DOMAIN requests :
        WellFormed(requests[r].body)
            => /\ requests[r].response = [code |-> 200, status |-> "success", details |-> ""]
               /\ Cardinality({j \in DOMAIN deliveries : deliveries[j].req = r}) = 1

\* A callback answered with success while its delivery has not started, and
\* one answered with success whose delivery failed.
C8_Witness ==
    \E r, q \in DOMAIN requests : \E j, k \in DOMAIN deliveries :
        /\ deliveries[j].req = r /\ deliveries[j].pc = "created"
        /\ deliveries[k].req = q /\ deliveries[k].pc = "caught"
        /\ requests[r].response.code = 200
        /\ requests[q].response.code = 200

\* The requests.post has ended in an exception of the transport or in a
\* response that is not 2xx.
EndedNon2xx(p) == p.st = "ended" /\ (p.exc # "" \/ p.status \notin 200..299)

\* The requests.post ended in an exception of the transport or a 4xx or 5xx.
EndedInError(p) == p.st = "ended" /\ (p.exc # "" \/ p.status \in 400..599)

AckFailed(h) == h.sends # <<>> /\ h.sends[1].site = "ack" /\ h.sends[1].st = "failed"

\* C10: a handler whose acknowledgment failed still makes its requests.post,
\* exactly once.
C10_ForwardSurvivesAckFailure ==
    \A i \in DOMAIN handlers :
        (AckFailed(handlers[i]) /\ Finished(handlers[i])) => Len(handlers[i].posts) = 1

\* What on_message does when the acknowledgment's send fails: the exception
\* leaves it, the handler makes no requests.post and sends nothing more.
AckFailureAbortsForward ==
    \A i \in DOMAIN handlers :
        AckFailed(handlers[i])
            => /\ handlers[i].pc = "raised"
               /\ handlers[i].posts = <<>>
               /\ Len(handlers[i].sends) = 1

\* A job command whose acknowledgment failed.
AckFailureReached ==
    \E i \in DOMAIN handlers :
        /\ IsJob(handlers[i].msg)
        /\ AckFailed(handlers[i])
        /\ handlers[i].pc = "raised"

\* fetch_channel of the task ended without a channel: it raised, or it
\* returned nothing.
Unresolved(d) == d.fetched \in {"raise", "none"}

\* C11: a delivery whose channel could not be resolved, because fetch_channel
\* raised or returned nothing, has issued no channel.send and has ended with
\* the error caught inside the task: no exception has left it, and the
\* answer already given to its callback is unchanged.  A delivery to a
\* channel the bot cannot resolve never sends.
C11_UnresolvedChannelDropsDelivery ==
    \A j \in DOMAIN deliveries :
        /\ Unresolved(deliveries[j])
              => /\ deliveries[j].sends = <<>>
                 /\ deliveries[j].pc = IF deliveries[j].fetched = "raise"
                                       THEN "caught" ELSE "notfound"
                 /\ j \notin {ready[k] : k \in DOMAIN ready}
                 /\ requests[deliveries[j].req].response.code = 200
        /\ deliveries[j].channel_id \notin {7, 12} => deliveries[j].sends = <<>>

\* A delivery to the unknown channel 99 whose fetch raised, and one whose
\* fetch returned nothing, both ended.
C11_Witness ==
    \E j, k \in DOMAIN deliveries :
        /\ deliveries[j].channel_id = 99
        /\ deliveries[j].fetched = "raise"
        /\ deliveries[j].pc = "caught"
        /\ deliveries[k].fetched = "none"
        /\ deliveries[k].pc = "notfound"

\* The last channel.send of a task failed.
LastSendFailed(log) == log # <<>> /\ log[Len(log)].st = "failed"

\* The positions in which send_message_to_channel has ended.
DeliveryEnded(d) == d.pc \in {"done", "notfound", "caught"}

\* Every error so far was absorbed where its operation ended: a callback
\* that failed was answered 500, a delivery that failed ended caught inside
\* its task, and the only exception that left on_message is a failed
\* channel.send, which the client's dispatcher logs.
ErrorsAbsorbed ==
    /\ \A i \in DOMAIN handlers :
           /\ handlers[i].pc \in {"ack", "posting", "apology", "done", "raised"}
           /\ handlers[i].pc = "raised" => LastSendFailed(handlers[i].sends)
    /\ \A j \in DOMAIN deliveries :
           deliveries[j].pc \in {"created", "fetching", "sending", "done", "notfound", "caught"}
    /\ \A r \in DOMAIN requests : requests[r].response.code \in {200, 500}

\* Everything received has been handled to its end: no chat message waits,
\* no handler is in progress, no delivery task waits or is in progress.
AllHandled ==
    /\ gateway = <<>>
    /\ ready = <<>>
    /\ \A i \in DOMAIN handlers : Finished(handlers[i])
    /\ \A j \in DOMAIN deliveries : DeliveryEnded(deliveries[j])

\* C12: whatever has failed so far, the loop and the HTTP listener go on.
\* Every error is absorbed where its operation ends and none stops the
\* program: under the program's scheduling, every chat message and every
\* callback that arrives, after any failures, is handled to its end, so that
\* again and again nothing received is left unhandled.
C12_ServicesSurviveFailures ==
    /\ []ErrorsAbsorbed
    /\ []<>AllHandled

\* An exception left the first handler, and the message received after it
\* was handled to its end, its forward timing out and its apology sent.
C12_Witness ==
    /\ Len(handlers) = 2
    /\ handlers[1].pc = "raised"
    /\ handlers[2].pc = "done"
    /\ handlers[2].posts # <<>>
    /\ handlers[2].posts[1].exc = "Timeout"
    /\ Len(handlers[2].sends) = 2

\* C13: one triggering message makes on_message issue at most two
\* channel.send calls: at most one acknowledgment, which comes first, and at
\* most one apology; it issues no other send.
C13_AtMostTwoSendsPerMessage ==
    \A i \in DOMAIN handlers :
        /\ Len(handlers[i].sends) <= 2
        /\ Cardinality(SendsAt(handlers[i].sends, "ack")) <= 1
        /\ Cardinality(SendsAt(handlers[i].sends, "apology")) <= 1
        /\ \A k \in DOMAIN handlers[i].sends :
               handlers[i].sends[k].site = IF k = 1 THEN "ack" ELSE "apology"

\* A handler that has returned after both sends, and one whose apology
\* failed: neither sent a third time.
C13_Witness ==
    \E i, k \in DOMAIN handlers :
        /\ handlers[i].pc = "done"
        /\ Len(handlers[i].sends) = 2
        /\ handlers[k].pc = "raised"
        /\ Len(handlers[k].sends) = 2

\* Every callback answered 200 has exactly one delivery task, and a callback
\* answered otherwise has none.
OneTaskPerAcceptedCallback ==
    \A r \in DOMAIN requests :
        Cardinality({j \in DOMAIN deliveries : deliveries[j].req = r}) =
            IF requests[r].response.code = 200 THEN 1 ELSE 0

\* Some delivery task has been created and has not ended.
DeliveryWaiting == \E j \in DOMAIN deliveries : ~DeliveryEnded(deliveries[j])

\* C14: whatever the order in which callbacks are handled, each one answered
\* 200 has exactly one delivery task, none is lost or duplicated, and under
\* the program's scheduling no delivery task is left waiting: whenever one
\* has not ended, a later state has every delivery task started by the loop
\* and run to its end, also when no chat message arrives at all.
C14_AcceptedCallbacksRun ==
    /\ []OneTaskPerAcceptedCallback
    /\ DeliveryWaiting ~> ~DeliveryWaiting

\* Two callbacks accepted while the loop waited in its selector and no chat
\* message ever arrived: both deliveries have run to their end.
C14_Witness ==
    /\ gateway = <<>>
    /\ handlers = <<>>
    /\ Len(requests) = 2
    /\ Len(deliveries) = 2
    /\ DeliveryEnded(deliveries[1])
    /\ deliveries[2].pc = "done"
    /\ ready = <<>>

\* The order in which on_message makes its calls.
CallOrder == <<"ack", "post", "apology">>

\* C15: on_message makes its calls in the order acknowledgment, POST,
\* apology.  While the acknowledgment's send has not ended no requests.post
\* has been issued; a requests.post is issued only after the acknowledgment
\* was sent; and the apology is issued only after the requests.post has ended
\* in failure.
C15_AckThenPostThenApology ==
    \A i \in DOMAIN handlers :
        /\ Len(handlers[i].trace) <= 3
        /\ \A k \in DOMAIN handlers[i].trace : handlers[i].trace[k] = CallOrder[k]
        /\ handlers[i].pc = "ack" => handlers[i].posts = <<>>
        /\ handlers[i].posts # <<>>
               => /\ handlers[i].sends[1].site = "ack"
                  /\ handlers[i].sends[1].st = "sent"
        /\ (handlers[i].posts # <<>> /\ handlers[i].posts[1].st = "outstanding")
               => Len(handlers[i].sends) = 1
        /\ SendsAt(handlers[i].sends, "apology") # {}
               => /\ Len(handlers[i].posts) = 1
                  /\ EndedInError(handlers[i].posts[1])

\* A handler that made all three calls, and one blocked in requests.post
\* after its acknowledgment was sent.
C15_Witness ==
    \E i, k \in DOMAIN handlers :
        /\ handlers[i].trace = <<"ack", "post", "apology">>
        /\ handlers[i].pc = "done"
        /\ handlers[k].pc = "posting"
        /\ handlers[k].sends[1].st = "sent"

\* C16: a delivery whose channel resolved and whose message has at most 2000
\* characters issues exactly one channel.send, to that channel, whose
\* content is the message of the callback's body, whole and unchanged.
C16_ShortMessageSentWhole ==
    \A j \in DOMAIN deliveries :
        (deliveries[j].fetched = "channel"
            /\ Len(requests[deliveries[j].req].body.message.s) <= 2000)
            => /\ Len(deliveries[j].sends) = 1
               /\ deliveries[j].sends[1].site = "deliver"
               /\ deliveries[j].sends[1].text = requests[deliveries[j].req].body.message.s
               /\ deliveries[j].sends[1].chan = deliveries[j].channel_id

\* A message of exactly 2000 characters and the message "ok", each sent in
\* one send.
C16_Witness ==
    \E j, k \in DOMAIN deliveries :
        /\ Len(deliveries[j].message) = 2000
        /\ deliveries[j].pc = "done"
        /\ deliveries[j].sends[1].st = "sent"
        /\ Len(deliveries[j].sends[1].text) = 2000
        /\ deliveries[k].message = "ok"
        /\ deliveries[k].pc = "done"

\* C17: the channel identifier written as text into the forwarded payload
\* converts back, by the callback's int(), to the identifier it came from.
\* A callback that echoes the payload's channel_id is accepted, and its
\* delivery task and every send of that task target the channel of the
\* command.
C17_ChannelIdRoundTrip ==
    /\ \A i \in DOMAIN handlers : \A k \in DOMAIN handlers[i].posts :
           PyInt(JStr(handlers[i].posts[k].payload.channel_id)) =
               [ok |-> TRUE, val |-> handlers[i].msg.channel,
                err |-> PyInt(JStr(handlers[i].posts[k].payload.channel_id)).err]
    /\ \A r \in DOMAIN requests :
           /\ requests[r].response.code = 200
           /\ \E j \in DOMAIN deliveries :
                  /\ deliveries[j].req = r
                  /\ deliveries[j].channel_id = handlers[1].msg.channel
                  /\ \A k \in DOMAIN deliveries[j].sends :
                         deliveries[j].sends[k].chan = handlers[1].msg.channel

\* A command in channel 12 forwarded, and the echoed callback's message sent
\* to channel 12.
C17_Witness ==
    /\ Len(handlers) = 1
    /\ handlers[1].msg.channel = 12
    /\ handlers[1].posts # <<>>
    /\ handlers[1].posts[1].payload.channel_id = "12"
    /\ \E j \in DOMAIN deliveries :
           /\ deliveries[j].pc = "done"
           /\ deliveries[j].sends[1].chan = 12
           /\ deliveries[j].sends[1].st = "sent"

\* The jobs forwarded so far from channel c.
JobsForwarded(c) == {i \in DOMAIN handlers : handlers[i].posts # <<>> /\ handlers[i].msg.channel = c}

\* The callbacks received before request r that named the same channel.
EarlierCallbacks(r) ==
    {q \in 1..(r - 1) : /\ WellFormed(requests[q].body)
                        /\ PyInt(requests[q].body.channel_id).val =
                               PyInt(requests[r].body.channel_id).val}

\* C18: whether a callback is accepted does not depend on the jobs forwarded.
\* Every well-formed callback is answered 200 and has its delivery task, for
\* the channel and with the message of its body, whether or not a job was
\* ever forwarded from that channel and however many callbacks for that
\* channel came before it.
C18_CallbackNeedsNoJob ==
    \A r \in DOMAIN requests :
        WellFormed(requests[r].body)
            => /\ requests[r].response.code = 200
               /\ \E j \in DOMAIN deliveries :
                      /\ deliveries[j].req = r
                      /\ deliveries[j].channel_id = PyInt(requests[r].body.channel_id).val
                      /\ deliveries[j].message = requests[r].body.message.s

\* No job was ever forwarded, and two callbacks for channel 7 are both
\* scheduled: the first unsolicited, the second a duplicate.
C18_Witness ==
    /\ handlers = <<>>
    /\ gateway = <<>>
    /\ Len(requests) = 2
    /\ JobsForwarded(7) = {}
    /\ EarlierCallbacks(2) = {1}
    /\ PyInt(requests[2].body.channel_id).val = 7
    /\ Len(deliveries) = 2
    /\ deliveries[1].channel_id = 7
    /\ deliveries[2].channel_id = 7

\* C19: every channel.send targets the channel of the chat message that
\* triggered it, when on_message issued it, or the channel named by the
\* channel_id of an accepted callback's body, when a delivery task issued
\* it.  No send has any other target.
C19_SendTargets ==
    /\ \A i \in DOMAIN handlers : \A k \in DOMAIN handlers[i].sends :
           handlers[i].sends[k].chan = handlers[i].msg.channel
    /\ \A j \in DOMAIN deliveries : \A k \in DOMAIN deliveries[j].sends :
           /\ requests[deliveries[j].req].response.code = 200
           /\ deliveries[j].sends[k].chan =
                  PyInt(requests[deliveries[j].req].body.channel_id).val

\* An acknowledgment sent to channel 12, where the command was written, and a
\* callback's message sent to channel 7, which its body named.
C19_Witness ==
    \E i \in DOMAIN handlers : \E j \in DOMAIN deliveries :
        /\ handlers[i].msg.channel = 12
        /\ handlers[i].sends # <<>>
        /\ handlers[i].sends[1].chan = 12
        /\ handlers[i].sends[1].st = "sent"
        /\ requests[deliveries[j].req].body.channel_id = JStr("7")
        /\ deliveries[j].sends # <<>>
        /\ deliveries[j].sends[1].chan = 7
        /\ deliveries[j].sends[1].st = "sent"

\* The message is a command whose remainder after the prefix is empty or
\* whitespace only.
IsEmptyCommand(m) == IsCommand(m) /\ TrimmedRemainder(m) = ""

\* C20: a finished handler of a command whose remainder is empty or
\* whitespace only has issued exactly one acknowledgment and exactly one
\* requests.post, whose query is the empty string.
C20_EmptyQueryForwarded ==
    \A i \in DOMAIN handlers :
        (IsEmptyCommand(handlers[i].msg) /\ Finished(handlers[i]))
            => /\ Cardinality(SendsAt(handlers[i].sends, "ack")) = 1
               /\ Len(handlers[i].posts) = 1
               /\ handlers[i].posts[1].payload.query = ""

\* What on_message does with an empty query: it does not filter it out.  It
\* issues exactly one acknowledgment, quoting the empty query, and makes
\* exactly one requests.post, with query "", when that send succeeded and
\* none when it failed.
EmptyQueryForwardedIfAckSent ==
    \A i \in DOMAIN handlers :
        IsEmptyCommand(handlers[i].msg)
            => /\ Cardinality(SendsAt(handlers[i].sends, "ack")) = 1
               /\ handlers[i].sends[1].text = "Got it. Analyzing your request: ''. Please wait..."
               /\ Len(handlers[i].posts) = IF handlers[i].sends[1].st = "sent" THEN 1 ELSE 0
               /\ \A k \in DOMAIN handlers[i].posts :
                      handlers[i].posts[k].payload =
                          [query |-> "", channel_id |-> "12", user |-> "alice"]

\* The command "!Smith  " acknowledged and forwarded with the empty query.
EmptyQueryForwardedReached ==
    \E i \in DOMAIN handlers :
        /\ handlers[i].msg.content = "!Smith  "
        /\ handlers[i].pc = "done"
        /\ Len(handlers[i].posts) = 1
        /\ handlers[i].posts[1].payload.query = ""

====
